---- MODULE Spec2Model ----
(***************************************************************************)
(* Model of mmworkbench/models/model.py: ModelConfig construction, the     *)
(* SkLearnModel training paths (fit, _fit, _fit_cv, _get_cv_iterator) and  *)
(* the evaluation statistics of ModelEvaluation.                           *)
(*                                                                         *)
(* Python values are tagged records so that None, the empty dict and a     *)
(* non-empty dict stay distinct: the code tests some of them with          *)
(* "is None" and others by truthiness.                                     *)
(***************************************************************************)
EXTENDS Integers, Sequences, FiniteSets, TLC

VARIABLES
    args,       \* arguments of the ModelConfig(...) call of this behaviour, or NoCall
    raised,     \* exception raised by ModelConfig.__init__ ("none" when it returned)
    config,     \* the ModelConfig object produced, or None
    model,      \* the SkLearnModel object (its fields), or None
    call,       \* the last method call on the model: arguments, outcome, path taken
    cvSettings, \* the settings handed to Model._get_cv_iterator
    cvResult,   \* what that call returned or raised, or NoCall
    evaluation, \* the StandardModelEvaluation object (its results), or NoCall
    evalCall    \* the last method call on the evaluation and its outcome, or NoCall

vars == <<args, raised, config, model, call, cvSettings, cvResult,
          evaluation, evalCall>>

configVars == <<args, raised, config, model, call>>
cvVars == <<cvSettings, cvResult>>
evalVars == <<evaluation, evalCall>>

-----------------------------------------------------------------------------
(* Bounds *)

\* classifier parameter values are 1..MaxParam
MaxParam == 2
\* number of folds k ranges over 2..MaxK
MaxK == 2

-----------------------------------------------------------------------------
(* Python values *)

None == [py |-> "None"]
NoCall == [py |-> "NoCall"]
Str(s) == [py |-> "str", val |-> s]
Dict(f) == [py |-> "dict", items |-> f]
EmptyDict == Dict(<<>>)

\* bool(v) for the values used here: None and the empty dict are falsy
Truthy(v) == v # None /\ ~(v.py = "dict" /\ DOMAIN v.items = {})

HasKey(d, key) == key \in DOMAIN d.items

\* d.get(key, default)
DictGet(d, key, default) == IF HasKey(d, key) THEN d.items[key] ELSE default

Range(s) == {s[i] : i \in DOMAIN s}

-----------------------------------------------------------------------------
(* Inputs *)

CvTypes == {"k-fold", "shuffle", "group-k-fold", "group-shuffle",
            "stratified-k-fold", "stratified-shuffle"}

ParamValues == 1..MaxParam

ParamsSet == {None, EmptyDict} \cup {Dict("C" :> v) : v \in ParamValues}

\* the grid of a param_selection: every value of the one classifier parameter
FullGrid == Dict("C" :> [i \in 1..MaxParam |-> i])

Absent == <<>>

TypeItems == {Absent} \cup {"type" :> t : t \in CvTypes \cup {"bogus"}}
KItems == {Absent} \cup {"k" :> k : k \in 2..MaxK}
NItems == {Absent, "n" :> 3}
GridItems == {Absent, "grid" :> None, "grid" :> FullGrid}
ScoringItems == {Absent, "scoring" :> "log_loss", "scoring" :> "f1"}

\* settings handed to _get_cv_iterator
ParamSelections ==
    {None, EmptyDict} \cup
    {Dict(t @@ k @@ n @@ g @@ s) :
        t \in TypeItems, k \in KItems, n \in NItems, g \in GridItems, s \in ScoringItems}

\* param_selection of a ModelConfig: 'n' only sizes the iterator, which the
\* outcome of fit does not show, so it is left at its default here
ConfigSelections ==
    {None, EmptyDict} \cup
    {Dict(t @@ k @@ g @@ s) :
        t \in TypeItems, k \in KItems, g \in GridItems, s \in ScoringItems}

ModelTypes == {None, Str("text")}
ExampleTypes == {None, Str("query")}
LabelTypes == {None, Str("class")}
FeatureSets == {None, Dict("bag-of-words" :> EmptyDict)}
ModelSettings == {None, Dict("feature_scaler" :> "max-abs")}

-----------------------------------------------------------------------------
(* ModelConfig *)

\* __init__ as it would be with 'features' left out of the required arguments
ModelConfigInit_FeaturesOptional(model_type, example_type, label_type, features, model_settings, params, param_selection) ==
    IF model_type = None \/ example_type = None \/ label_type = None
    THEN [raised |-> "TypeError", self |-> None]
    ELSE IF params = None /\ (param_selection = None
                              \/ DictGet(param_selection, "grid", None) = None)
    THEN [raised |-> "ValueError", self |-> None]
    ELSE [raised |-> "none",
          self |-> [py |-> "ModelConfig", model_type |-> model_type,
                    example_type |-> example_type, label_type |-> label_type,
                    features |-> features, model_settings |-> model_settings,
                    params |-> params, param_selection |-> param_selection]]

\* __init__ as it would be if it asked for the 'grid' key, not for its value
ModelConfigInit_GridKeyOnly(model_type, example_type, label_type, features, model_settings, params, param_selection) ==
    IF model_type = None \/ example_type = None \/ label_type = None \/ features = None
    THEN [raised |-> "TypeError", self |-> None]
    ELSE IF params = None /\ (param_selection = None \/ ~HasKey(param_selection, "grid"))
    THEN [raised |-> "ValueError", self |-> None]
    ELSE [raised |-> "none",
          self |-> [py |-> "ModelConfig", model_type |-> model_type,
                    example_type |-> example_type, label_type |-> label_type,
                    features |-> features, model_settings |-> model_settings,
                    params |-> params, param_selection |-> param_selection]]

\* ModelConfig.__init__: the result is [raised, self]
ModelConfigInit(model_type, example_type, label_type, features, model_settings, params, param_selection) ==
    LET required == <<model_type, example_type, label_type, features>>
    IN  IF \E i \in 1..4 : required[i] = None
        THEN [raised |-> "TypeError", self |-> None]
        ELSE IF params = None /\ (param_selection = None
                                  \/ DictGet(param_selection, "grid", None) = None)
        THEN [raised |-> "ValueError", self |-> None]
        ELSE [raised |-> "none",
              self |-> [py |-> "ModelConfig",
                        model_type |-> model_type,
                        example_type |-> example_type,
                        label_type |-> label_type,
                        features |-> features,
                        model_settings |-> model_settings,
                        params |-> params,
                        param_selection |-> param_selection]]

NewModelConfig ==
    /\ args = NoCall
    /\ \E mt \in ModelTypes, et \in ExampleTypes, lt \in LabelTypes, ft \in FeatureSets,
          ms \in ModelSettings, ps \in ParamsSet, sel \in ConfigSelections :
          LET r == ModelConfigInit(mt, et, lt, ft, ms, ps, sel)
          IN  /\ args' = [model_type |-> mt, example_type |-> et, label_type |-> lt,
                          features |-> ft, model_settings |-> ms, params |-> ps,
                          param_selection |-> sel]
              /\ raised' = r.raised
              /\ config' = r.self
    /\ UNCHANGED <<model, call, cvVars, evalVars>>

-----------------------------------------------------------------------------
(* Model / SkLearnModel *)

\* an estimator of the wrapped library: the parameters it was constructed
\* with and how it was trained (directly, or refit by the grid search)
Estimator(params, how) == [py |-> "estimator", params |-> params, by |-> how]

\* SkLearnModel._get_feature_scaler
GetFeatureScaler(cfg) ==
    IF cfg.model_settings = None \/ ~HasKey(cfg.model_settings, "feature_scaler")
    THEN None
    ELSE LET scale_type == cfg.model_settings.items["feature_scaler"]
         IN  IF scale_type = "std-dev" THEN Str("StandardScaler")
             ELSE IF scale_type = "max-abs" THEN Str("MaxAbsScaler")
             ELSE None

\* Model.__init__ followed by SkLearnModel.__init__
SkLearnModelInit(cfg) ==
    [py |-> "SkLearnModel",
     config |-> cfg,
     _current_params |-> None,
     _clf |-> None,
     cv_loss_ |-> None,
     _feat_scaler |-> GetFeatureScaler(cfg)]

NewSkLearnModel ==
    /\ config # None
    /\ model = None
    /\ model' = SkLearnModelInit(config)
    /\ UNCHANGED <<args, raised, config, call, cvVars, evalVars>>

\* The six iterator builders. settings['k'] raises KeyError when 'k' is absent.
KFoldIterator(settings) ==
    IF ~HasKey(settings, "k") THEN [raised |-> "KeyError", value |-> None]
    ELSE [raised |-> "none",
          value |-> [cls |-> "KFold", n_splits |-> settings.items["k"]]]

\* test_size = 1.0 / k is kept as the fraction <<1, k>>
ShuffleIterator(settings) ==
    IF ~HasKey(settings, "k") THEN [raised |-> "KeyError", value |-> None]
    ELSE LET k == settings.items["k"]
         IN  [raised |-> "none",
              value |-> [cls |-> "ShuffleSplit", n_splits |-> DictGet(settings, "n", k),
                         test_size |-> <<1, k>>]]

GroupsKFoldIterator(settings) ==
    IF ~HasKey(settings, "k") THEN [raised |-> "KeyError", value |-> None]
    ELSE [raised |-> "none",
          value |-> [cls |-> "GroupKFold", n_splits |-> settings.items["k"]]]

GroupsShuffleIterator(settings) ==
    IF ~HasKey(settings, "k") THEN [raised |-> "KeyError", value |-> None]
    ELSE LET k == settings.items["k"]
         IN  [raised |-> "none",
              value |-> [cls |-> "GroupShuffleSplit",
                         n_splits |-> DictGet(settings, "n", k),
                         test_size |-> <<1, k>>]]

StratifiedKFoldIterator(settings) ==
    IF ~HasKey(settings, "k") THEN [raised |-> "KeyError", value |-> None]
    ELSE [raised |-> "none",
          value |-> [cls |-> "StratifiedKFold", n_splits |-> settings.items["k"]]]

StratifiedShuffleIterator(settings) ==
    IF ~HasKey(settings, "k") THEN [raised |-> "KeyError", value |-> None]
    ELSE LET k == settings.items["k"]
         IN  [raised |-> "none",
              value |-> [cls |-> "StratifiedShuffleSplit",
                         n_splits |-> DictGet(settings, "n", k),
                         test_size |-> <<1, k>>]]

\* the builder the dict literal of _get_cv_iterator holds for a key
Builder(cv_type, settings) ==
    CASE cv_type = "k-fold" -> KFoldIterator(settings)
      [] cv_type = "shuffle" -> ShuffleIterator(settings)
      [] cv_type = "group-k-fold" -> GroupsKFoldIterator(settings)
      [] cv_type = "group-shuffle" -> GroupsShuffleIterator(settings)
      [] cv_type = "stratified-k-fold" -> StratifiedKFoldIterator(settings)
      [] cv_type = "stratified-shuffle" -> StratifiedShuffleIterator(settings)

\* Model._get_cv_iterator: the result is [raised, value].
\* {...}.get(cv_type) is None for a key the dict does not hold, and calling
\* None raises TypeError, which "except KeyError" does not catch; a KeyError
\* of the builder (no 'k') is the one that becomes ValueError.
GetCvIterator(settings) ==
    IF ~Truthy(settings) THEN [raised |-> "none", value |-> None]
    ELSE IF ~HasKey(settings, "type") THEN [raised |-> "KeyError", value |-> None]
    ELSE LET cv_type == settings.items["type"]
         IN  IF cv_type \notin CvTypes
             THEN [raised |-> "TypeError", value |-> None]
             ELSE LET built == Builder(cv_type, settings)
                  IN  IF built.raised = "KeyError"
                      THEN [raised |-> "ValueError", value |-> None]
                      ELSE built

\* SkLearnModel._fit: model_class(**_convert_params(params, y)).fit(X, y).
\* The feature matrix and the targets are opaque to this module; with
\* params None there is no mapping to unpack and the call raises TypeError.
Fit_(params) ==
    IF params = None THEN [raised |-> "TypeError", clf |-> None]
    ELSE [raised |-> "none", clf |-> Estimator(params, "fit")]

\* ParameterGrid(grid): one candidate per combination of the listed values
ParameterGrid(grid) ==
    LET g == grid.items
        keys == DOMAIN g
        values == UNION {Range(g[key]) : key \in keys}
    IN  {Dict(f) : f \in {h \in [keys -> values] : \A key \in keys : h[key] \in Range(g[key])}}

\* the settings _fit_cv works with
SelectionSettings(self, selection_settings) ==
    IF Truthy(selection_settings) THEN selection_settings ELSE self.config.param_selection

\* does _fit_cv reach GridSearchCV.fit with these settings
ReachesGridSearch(settings) ==
    /\ settings # None
    /\ GetCvIterator(settings).raised = "none"
    /\ HasKey(settings, "type")
    /\ HasKey(settings, "grid")
    /\ settings.items["grid"] # None

\* what the grid search may report as best_params_
BestCandidates(settings) ==
    IF ReachesGridSearch(settings) THEN ParameterGrid(settings.items["grid"]) ELSE {None}

\* model.best_score_: the search's mean test score of the best candidate
BestScores == {0, 1}

\* SkLearnModel._fit_cv: the result is [raised, clf, params, cv_loss_];
\* best_params and best_score are what GridSearchCV.fit found. A grid of
\* None gives _convert_params nothing to convert (TypeError), and a scoring
\* other than the two the method knows leaves msg unbound at the first
\* logging call after the search (UnboundLocalError).
FitCv(self, selection_settings, best_params, best_score) ==
    LET settings == SelectionSettings(self, selection_settings)
        cv_iterator == GetCvIterator(settings)
        fail(e) == [raised |-> e, clf |-> None, params |-> None, cv_loss_ |-> self.cv_loss_]
    IN  IF cv_iterator.raised # "none" THEN fail(cv_iterator.raised)
        ELSE IF settings = None
        THEN LET direct == Fit_(self.config.params)
             IN  IF direct.raised # "none" THEN fail(direct.raised)
                 ELSE [raised |-> "none", clf |-> direct.clf,
                       params |-> self.config.params, cv_loss_ |-> self.cv_loss_]
        ELSE IF ~HasKey(settings, "type") THEN fail("KeyError")
        ELSE IF ~HasKey(settings, "grid") THEN fail("KeyError")
        ELSE IF settings.items["grid"] = None THEN fail("TypeError")
        ELSE LET scoring == DictGet(settings, "scoring", "accuracy")
             IN  IF scoring = "accuracy"
                 THEN [raised |-> "none", clf |-> Estimator(best_params, "grid_search"),
                       params |-> best_params, cv_loss_ |-> 1 - best_score]
                 ELSE IF scoring = "log_loss"
                 THEN [raised |-> "none", clf |-> Estimator(best_params, "grid_search"),
                       params |-> best_params, cv_loss_ |-> 0 - best_score]
                 ELSE fail("UnboundLocalError")

\* the flag as it would be if the config's settings were tested by truthiness
SkipParamSelection_Truthy(self, params) ==
    params # None \/ ~Truthy(self.config.param_selection)

\* fit: skip_param_selection = params is not None or self.config.param_selection is None
SkipParamSelection(self, params) ==
    params # None \/ self.config.param_selection = None

\* fit: params = params or self.config.params
UsedParams(self, params) ==
    IF Truthy(params) THEN params ELSE self.config.params

\* SkLearnModel.fit: the result is the model after the call and the record
\* of the call (exception, return value, whether _fit_cv ran).
FitModel(self, params, best_params, best_score) ==
    LET skip_param_selection == SkipParamSelection(self, params)
        used == UsedParams(self, params)
        rec(e, ret, cv) == [op |-> "fit", params |-> params, raised |-> e,
                            returned |-> ret, ran_cv |-> cv]
    IN  IF skip_param_selection
        THEN LET direct == Fit_(used)
             IN  IF direct.raised # "none"
                 THEN [self |-> self, call |-> rec(direct.raised, None, FALSE)]
                 ELSE [self |-> [self EXCEPT !._clf = direct.clf,
                                             !._current_params = used],
                       call |-> rec("none", Str("self"), FALSE)]
        ELSE LET cv == FitCv(self, None, best_params, best_score)
             IN  IF cv.raised # "none"
                 THEN [self |-> self, call |-> rec(cv.raised, None, TRUE)]
                 ELSE [self |-> [self EXCEPT !._clf = cv.clf,
                                             !._current_params = cv.params,
                                             !.cv_loss_ = cv.cv_loss_],
                       call |-> rec("none", Str("self"), TRUE)]

\* the settings fit hands to the grid search, when it gets that far
FitSearchSettings(self, params) ==
    IF SkipParamSelection(self, params) THEN None
    ELSE SelectionSettings(self, None)

Fit ==
    /\ model # None
    /\ \E params \in ParamsSet :
       \E best_params \in BestCandidates(FitSearchSettings(model, params)) :
       \E best_score \in IF best_params = None THEN {0} ELSE BestScores :
          LET r == FitModel(model, params, best_params, best_score)
          IN  /\ model' = r.self
              /\ call' = r.call
    /\ UNCHANGED <<args, raised, config, cvVars, evalVars>>

\* SkLearnModel.select_params: runs _fit_cv with the settings given and keeps
\* the estimator; _current_params is not touched.
SelectParamsModel(self, selection_settings, best_params, best_score) ==
    LET cv == FitCv(self, selection_settings, best_params, best_score)
        rec(e, ret) == [op |-> "select_params", params |-> selection_settings,
                        raised |-> e, returned |-> ret, ran_cv |-> TRUE]
    IN  IF cv.raised # "none"
        THEN [self |-> self, call |-> rec(cv.raised, None)]
        ELSE [self |-> [self EXCEPT !._clf = cv.clf, !.cv_loss_ = cv.cv_loss_],
              call |-> rec("none", cv.params)]

\* settings a caller passes to select_params
SelectionArgs == {None, EmptyDict,
                  Dict(("type" :> "k-fold") @@ ("k" :> 2) @@ ("grid" :> FullGrid))}

SelectParams ==
    /\ model # None
    /\ \E selection_settings \in SelectionArgs :
       \E best_params \in BestCandidates(SelectionSettings(model, selection_settings)) :
       \E best_score \in IF best_params = None THEN {0} ELSE BestScores :
          LET r == SelectParamsModel(model, selection_settings, best_params, best_score)
          IN  /\ model' = r.self
              /\ call' = r.call
    /\ UNCHANGED <<args, raised, config, cvVars, evalVars>>

-----------------------------------------------------------------------------
(* Direct calls of Model._get_cv_iterator *)

CallGetCvIterator ==
    /\ \E settings \in ParamSelections :
          /\ cvSettings' = settings
          /\ cvResult' = GetCvIterator(settings)
    /\ UNCHANGED <<configVars, evalVars>>

-----------------------------------------------------------------------------
(* ModelEvaluation / StandardModelEvaluation *)

\* Labels are text: sequences of characters. The third one is longer than
\* the 10 characters the confusion-matrix table keeps.
LabelNames == << <<"a">>, <<"b">>,
                 <<"c", "l", "a", "s", "s", "-", "l", "o", "n", "g", "e", "r">>,
                 <<"d">>, <<"e">> >>

\* number of distinct labels an evaluation may hold
NumLabels == 3
\* largest number of evaluated examples
MaxResults == 3

Labels == {LabelNames[i] : i \in 1..NumLabels}

\* EvaluatedExample, reduced to the two fields the statistics read
EvaluatedExamples == [expected : Labels, predicted : Labels]

\* is_correct with the comparison inverted
IsCorrect_Inverted(e) == e.expected # e.predicted

\* EvaluatedExample.is_correct
IsCorrect(e) == e.expected = e.predicted

\* ModelEvaluation.get_accuracy: float(num_correct) / float(num_examples) is
\* kept as the fraction <<num_correct, num_examples>>
GetAccuracy(rs) ==
    LET num_examples == Len(rs)
        num_correct == Len(SelectSeq(rs, IsCorrect))
    IN  IF num_examples = 0
        THEN [raised |-> "ZeroDivisionError", value |-> <<>>]
        ELSE [raised |-> "none", value |-> <<num_correct, num_examples>>]

\* the index as it would be if the label were taken to be the last one
Index0_Last(seq, x) == Len(seq) - 1

\* list.index(x), 0-based
Index0(seq, x) ==
    (CHOOSE i \in 1..Len(seq) : seq[i] = x /\ \A j \in 1..(i - 1) : seq[j] # x) - 1

\* ModelEvaluation._update_raw_result: returns <<text_labels, vec>>
UpdateRawResult(label, text_labels, vec) ==
    LET updated == IF label \in Range(text_labels) THEN text_labels
                   ELSE Append(text_labels, label)
    IN  <<updated, Append(vec, Index0(updated, label))>>

RECURSIVE RawResultsLoop(_, _, _, _, _)
RawResultsLoop(rs, i, text_labels, predicted, expected) ==
    IF i > Len(rs)
    THEN [py |-> "RawResults", predicted |-> predicted, expected |-> expected,
          text_labels |-> text_labels]
    ELSE LET p == UpdateRawResult(rs[i].predicted, text_labels, predicted)
             e == UpdateRawResult(rs[i].expected, p[1], expected)
         IN  RawResultsLoop(rs, i + 1, e[1], p[2], e[2])

\* StandardModelEvaluation.raw_results
RawResults(rs) == RawResultsLoop(rs, 1, <<>>, <<>>, <<>>)

RECURSIVE SumRange(_, _, _)
SumRange(f, lo, hi) == IF lo > hi THEN 0 ELSE f[lo] + SumRange(f, lo + 1, hi)

\* sum(list)
SumList(seq) == SumRange(seq, 1, Len(seq))

\* np.sum of an n x n matrix
NpSum(M, n) == SumRange([i \in 0..(n - 1) |-> SumRange(M[i], 0, n - 1)], 0, n - 1)

\* np.ones((n, n)), np.zeros((n, n)) and the assignments the masks are built by
NpOnes(n) == [i \in 0..(n - 1) |-> [j \in 0..(n - 1) |-> 1]]
NpZeros(n) == [i \in 0..(n - 1) |-> [j \in 0..(n - 1) |-> 0]]
SetColumn(M, c, v) == [i \in DOMAIN M |-> [M[i] EXCEPT ![c] = v]]
SetRow(M, r, v) == [M EXCEPT ![r] = [j \in DOMAIN M[r] |-> v]]
SetCell(M, r, c, v) == [M EXCEPT ![r][c] = v]
\* mask * confusion_mat, element by element
NpMul(A, B) == [i \in DOMAIN A |-> [j \in DOMAIN A[i] |-> A[i][j] * B[i][j]]]

\* sklearn.metrics.confusion_matrix(y_true, y_pred): rows and columns are the
\* sorted distinct values of both vectors; C[i][j] counts the observations
\* known to be in group i and predicted to be in group j
ConfusionMatrix(y_true, y_pred) ==
    LET present == Range(y_true) \cup Range(y_pred)
        n == Cardinality(present)
        rank(x) == Cardinality({y \in present : y < x})
    IN  [i \in 0..(n - 1) |-> [j \in 0..(n - 1) |->
            Cardinality({k \in 1..Len(y_true) : rank(y_true[k]) = i /\ rank(y_pred[k]) = j})]]

\* the four per-class counts of the multi-class branch
TPCount(C, n, class_index) == C[class_index][class_index]

\* the TN mask with only the column of the class cleared
TNCount_ColumnOnly(C, n, class_index) ==
    LET mask == SetColumn(NpOnes(n), class_index, 0)
    IN  NpSum(NpMul(mask, C), n)

TNCount(C, n, class_index) ==
    LET mask == SetRow(SetColumn(NpOnes(n), class_index, 0), class_index, 0)
    IN  NpSum(NpMul(mask, C), n)

FPCount(C, n, class_index) ==
    LET mask == SetCell(SetColumn(NpZeros(n), class_index, 1), class_index, class_index, 0)
    IN  NpSum(NpMul(mask, C), n)

FNCount(C, n, class_index) ==
    LET mask == SetCell(SetColumn(NpZeros(n), class_index, 1), class_index, class_index, 0)
    IN  NpSum(NpMul(mask, C), n)

\* ModelEvaluation._get_confusion_matrix_and_counts
ConfusionMatrixAndCounts(y_true, y_pred) ==
    LET C == ConfusionMatrix(y_true, y_pred)
        n == Cardinality(DOMAIN C)
        by_class ==
            IF n = 2
            THEN [TP |-> <<C[1][1]>>, TN |-> <<C[0][0]>>,
                  FP |-> <<C[0][1]>>, FN |-> <<C[1][0]>>]
            ELSE [TP |-> [k \in 1..n |-> TPCount(C, n, k - 1)],
                  TN |-> [k \in 1..n |-> TNCount(C, n, k - 1)],
                  FP |-> [k \in 1..n |-> FPCount(C, n, k - 1)],
                  FN |-> [k \in 1..n |-> FNCount(C, n, k - 1)]]
    IN  [confusion_matrix |-> C,
         counts_by_class |-> by_class,
         counts_overall |-> [TP |-> SumList(by_class.TP), TN |-> SumList(by_class.TN),
                             FP |-> SumList(by_class.FP), FN |-> SumList(by_class.FN)]]

\* range(n) as a list
PyRange(n) == [k \in 1..n |-> k - 1]

\* how often value x occurs in vector y, and how often two vectors agree on x
CountOf(y, x) == Cardinality({k \in 1..Len(y) : y[k] = x})
CountBoth(y_true, y_pred, x) ==
    Cardinality({k \in 1..Len(y_true) : y_true[k] = x /\ y_pred[k] = x})

\* ModelEvaluation._get_class_stats: precision_recall_fscore_support restricted
\* to `labels`, one entry per label given. Ratios are kept as fractions
\* <<numerator, denominator>>; the library reports 0.0 for a zero denominator.
GetClassStats(y_true, y_pred, labels) ==
    [precision |-> [k \in 1..Len(labels) |->
                       <<CountBoth(y_true, y_pred, labels[k]), CountOf(y_pred, labels[k])>>],
     recall |-> [k \in 1..Len(labels) |->
                    <<CountBoth(y_true, y_pred, labels[k]), CountOf(y_true, labels[k])>>],
     f_beta |-> [k \in 1..Len(labels) |->
                    <<2 * CountBoth(y_true, y_pred, labels[k]),
                      CountOf(y_pred, labels[k]) + CountOf(y_true, labels[k])>>],
     support |-> [k \in 1..Len(labels) |-> CountOf(y_true, labels[k])]]

\* ModelEvaluation._get_overall_stats: the three f1_score averages over
\* `labels`. The micro average is a fraction; the macro and weighted averages
\* are kept as the per-label scores (and weights) they average.
GetOverallStats(rs, y_true, y_pred, labels) ==
    LET per_label == GetClassStats(y_true, y_pred, labels)
        f1_micro ==
            <<2 * SumList([k \in 1..Len(labels) |-> CountBoth(y_true, y_pred, labels[k])]),
              SumList([k \in 1..Len(labels) |->
                          CountOf(y_pred, labels[k]) + CountOf(y_true, labels[k])])>>
    IN  [f1_weighted |-> [scores |-> per_label.f_beta, weights |-> per_label.support],
         f1_macro |-> [scores |-> per_label.f_beta],
         f1_micro |-> f1_micro,
         accuracy |-> GetAccuracy(rs).value]

\* ModelEvaluation._get_common_stats
GetCommonStats(rs, raw_expected, raw_predicted, text_labels) ==
    LET labels == PyRange(Len(text_labels) - 1)
        confusion_stats == ConfusionMatrixAndCounts(raw_expected, raw_predicted)
        counts_overall == confusion_stats.counts_overall
        counts_by_class == confusion_stats.counts_by_class
        overall == GetOverallStats(rs, raw_expected, raw_predicted, labels)
        by_class == GetClassStats(raw_expected, raw_predicted, labels)
    IN  [labels |-> labels,
         stats_overall |->
            [f1_weighted |-> overall.f1_weighted, f1_macro |-> overall.f1_macro,
             f1_micro |-> overall.f1_micro, accuracy |-> overall.accuracy,
             TP |-> counts_overall.TP, TN |-> counts_overall.TN,
             FP |-> counts_overall.FP, FN |-> counts_overall.FN],
         class_stats |->
            [precision |-> by_class.precision, recall |-> by_class.recall,
             f_beta |-> by_class.f_beta, support |-> by_class.support,
             TP |-> counts_by_class.TP, TN |-> counts_by_class.TN,
             FP |-> counts_by_class.FP, FN |-> counts_by_class.FN],
         confusion_matrix |-> confusion_stats.confusion_matrix]

\* ModelEvaluation._truncate_label
TruncateLabel(label, max_len) ==
    IF Len(label) > max_len THEN SubSeq(label, 1, max_len) \o <<".", ".">> ELSE label

\* ModelEvaluation._print_class_stats_table: the rows printed, each the
\* (truncated) label and the eight statistics of that label
PrintClassStatsTable(class_stats, text_labels) ==
    [k \in 1..(Len(text_labels) - 1) |->
        [label |-> TruncateLabel(text_labels[k], 18),
         f_beta |-> class_stats.f_beta[k], precision |-> class_stats.precision[k],
         recall |-> class_stats.recall[k], support |-> class_stats.support[k],
         TP |-> class_stats.TP[k], TN |-> class_stats.TN[k],
         FP |-> class_stats.FP[k], FN |-> class_stats.FN[k]]]

\* ModelEvaluation._print_class_matrix: the title row and the rows printed
PrintClassMatrix(matrix, text_labels) ==
    [titles |-> [k \in 1..(Len(text_labels) - 1) |-> TruncateLabel(text_labels[k], 10)],
     rows |-> [k \in 1..(Len(text_labels) - 1) |->
                 [label |-> TruncateLabel(text_labels[k], 10), cells |-> matrix[k - 1]]]]

\* StandardModelEvaluation.print_stats: the stats returned and what was printed
PrintStatsOf(rs) ==
    LET raw_results == RawResults(rs)
        common == GetCommonStats(rs, raw_results.expected, raw_results.predicted,
                                 raw_results.text_labels)
    IN  [raised |-> "none",
         labels |-> common.labels,
         stats_overall |-> common.stats_overall,
         class_stats |-> common.class_stats,
         confusion_matrix |-> common.confusion_matrix,
         printed |-> [overall |-> common.stats_overall,
                      class_table |-> PrintClassStatsTable(common.class_stats,
                                                           raw_results.text_labels),
                      class_matrix |-> PrintClassMatrix(common.confusion_matrix,
                                                        raw_results.text_labels)]]

\* The evaluation of a model: config and results (the results of one
\* evaluate() call, possibly none).
NewEvaluation ==
    /\ evaluation = NoCall
    /\ \E n \in 0..MaxResults : \E rs \in [1..n -> EvaluatedExamples] :
          evaluation' = [py |-> "StandardModelEvaluation", results |-> rs]
    /\ UNCHANGED <<configVars, cvVars, evalCall>>

CallGetAccuracy ==
    /\ evaluation # NoCall
    /\ evalCall' = [op |-> "get_accuracy", out |-> GetAccuracy(evaluation.results)]
    /\ UNCHANGED <<configVars, cvVars, evaluation>>

CallRawResults ==
    /\ evaluation # NoCall
    /\ evalCall' = [op |-> "raw_results", out |-> RawResults(evaluation.results)]
    /\ UNCHANGED <<configVars, cvVars, evaluation>>

\* With no results at all nothing is printed: the library refuses empty
\* vectors, and get_accuracy divides by zero.
CallPrintStats ==
    /\ evaluation # NoCall
    /\ IF Len(evaluation.results) = 0
       THEN \E e \in {"ValueError", "ZeroDivisionError"} :
               evalCall' = [op |-> "print_stats", out |-> [raised |-> e]]
       ELSE evalCall' = [op |-> "print_stats", out |-> PrintStatsOf(evaluation.results)]
    /\ UNCHANGED <<configVars, cvVars, evaluation>>

-----------------------------------------------------------------------------

Init ==
    /\ args = NoCall
    /\ raised = "none"
    /\ config = None
    /\ model = None
    /\ call = NoCall
    /\ cvSettings = None
    /\ cvResult = NoCall
    /\ evaluation = NoCall
    /\ evalCall = NoCall

Next ==
    \/ NewModelConfig
    \/ NewSkLearnModel
    \/ Fit
    \/ SelectParams

Spec == Init /\ [][Next]_vars

\* direct calls of _get_cv_iterator
CvNext == CallGetCvIterator
CvSpec == Init /\ [][CvNext]_vars

\* an evaluation and the calls of its statistics methods
EvalNext ==
    \/ NewEvaluation
    \/ CallGetAccuracy
    \/ CallRawResults
    \/ CallPrintStats
EvalSpec == Init /\ [][EvalNext]_vars

-----------------------------------------------------------------------------
(* Properties of ModelConfig construction (checked under Spec) *)

Constructed == args # NoCall

RequiredPresent ==
    /\ args.model_type # None
    /\ args.example_type # None
    /\ args.label_type # None
    /\ args.features # None

\* C1: constructing a ModelConfig with any of model_type, example_type,
\* label_type or features missing (None) raises TypeError, whatever the other
\* arguments are, and produces no object.
C1_MissingRequiredRaisesTypeError ==
    (Constructed /\ ~RequiredPresent) => (raised = "TypeError" /\ config = None)

\* C1 witness: only features is missing, and params and param_selection are
\* missing too (what would otherwise be the ValueError case).
C1_Witness ==
    /\ Constructed
    /\ args.model_type # None /\ args.example_type # None /\ args.label_type # None
    /\ args.features = None
    /\ args.params = None /\ args.param_selection = None
    /\ raised = "TypeError"

\* params is None and param_selection offers no grid
NothingToTrainWith ==
    /\ args.params = None
    /\ \/ args.param_selection = None
       \/ "grid" \notin DOMAIN args.param_selection.items
       \/ args.param_selection.items["grid"] = None

\* C2: with the four required arguments present, construction raises
\* ValueError exactly when params is None and param_selection is None or has
\* no (or a None) 'grid'; otherwise it succeeds and the seven attributes hold
\* the values passed in.
C2_ValueErrorOrAttributes ==
    (Constructed /\ RequiredPresent) =>
        /\ (raised = "ValueError") <=> NothingToTrainWith
        /\ NothingToTrainWith => config = None
        /\ ~NothingToTrainWith =>
              /\ raised = "none"
              /\ config # None
              /\ config.model_type = args.model_type
              /\ config.example_type = args.example_type
              /\ config.label_type = args.label_type
              /\ config.features = args.features
              /\ config.model_settings = args.model_settings
              /\ config.params = args.params
              /\ config.param_selection = args.param_selection

\* C2 witness: params is None, the grid is there: an object is produced.
C2_Witness ==
    /\ Constructed /\ RequiredPresent
    /\ args.params = None
    /\ raised = "none"
    /\ config # None
    /\ config.param_selection.items["grid"] = FullGrid

-----------------------------------------------------------------------------
(* Properties of SkLearnModel.fit (checked under Spec) *)

FitCalled == call # NoCall /\ call.op = "fit"

\* C3: fit called with params provided (any dict that is not None, the empty
\* one included) runs no cross-validation, and when it returns the classifier
\* was trained with exactly those params and _current_params equals them.
C3_GivenParamsAreUsed ==
    (FitCalled /\ call.params # None) =>
        /\ ~call.ran_cv
        /\ call.raised = "none" =>
              /\ model._clf = Estimator(call.params, "fit")
              /\ model._current_params = call.params

\* param_selection names a known type and carries what that type's search
\* reads: 'k', a grid, and a scoring the method knows
WellFormedSelection(settings) ==
    /\ "type" \in DOMAIN settings.items
    /\ settings.items["type"] \in CvTypes
    /\ "k" \in DOMAIN settings.items
    /\ "grid" \in DOMAIN settings.items
    /\ settings.items["grid"] # None
    /\ \/ "scoring" \notin DOMAIN settings.items
       \/ settings.items["scoring"] \in {"accuracy", "log_loss"}

TrainedDirectly ==
    /\ ~call.ran_cv
    /\ call.raised = "none"
    /\ model._clf = Estimator(model.config.params, "fit")
    /\ model._current_params = model.config.params
    /\ call.returned = Str("self")

TrainedBySearch ==
    /\ call.raised = "none"
    /\ model._current_params \in ParameterGrid(model.config.param_selection.items["grid"])
    /\ model._clf = Estimator(model._current_params, "grid_search")
    /\ call.returned = Str("self")

\* C4 as stated: fit called without params trains directly with config.params
\* when config.param_selection is None, and otherwise runs the cross-validated
\* search and takes its best estimator and best parameters; in both cases it
\* returns the model itself.
C4_PathFromConfig ==
    (FitCalled /\ call.params = None) =>
        IF model.config.param_selection = None
        THEN TrainedDirectly
        ELSE call.ran_cv /\ TrainedBySearch

\* C4 amended: as C4, but the search path completes exactly when
\* param_selection is well formed; with any other param_selection that is
\* not None fit enters _fit_cv and raises instead of returning.
C4_PathFromConfigAmended ==
    (FitCalled /\ call.params = None) =>
        IF model.config.param_selection = None
        THEN TrainedDirectly
        ELSE /\ call.ran_cv
             /\ (call.raised = "none") <=> WellFormedSelection(model.config.param_selection)
             /\ call.raised = "none" => TrainedBySearch
             /\ call.raised # "none" => call.returned = None

\* C4 witness: the search ran and its best parameters are not config.params.
C4_Witness ==
    /\ FitCalled /\ call.params = None
    /\ call.ran_cv
    /\ call.raised = "none"
    /\ model.config.params # None
    /\ model._current_params # model.config.params
    /\ model._clf.by = "grid_search"

-----------------------------------------------------------------------------
(* Properties of Model._get_cv_iterator (checked under CvSpec) *)

\* C5: _get_cv_iterator returns None for settings that are None or empty,
\* returns what the matching builder builds for the six known types, and
\* raises ValueError for any other 'type'.
C5_CvIteratorByType ==
    cvResult # NoCall =>
        IF cvSettings = None \/ cvSettings = EmptyDict
        THEN cvResult.raised = "none" /\ cvResult.value = None
        ELSE IF "type" \notin DOMAIN cvSettings.items
        THEN TRUE
        ELSE IF cvSettings.items["type"] \in CvTypes
        THEN Builder(cvSettings.items["type"], cvSettings).raised = "none" =>
                cvResult = Builder(cvSettings.items["type"], cvSettings)
        ELSE cvResult.raised = "ValueError"

-----------------------------------------------------------------------------
(* Properties of the evaluation statistics (checked under EvalSpec) *)

Called(op) == evalCall # NoCall /\ evalCall.op = op

StatsPrinted == Called("print_stats") /\ evalCall.out.raised = "none"

\* the sum of the cells of C at the given <<row, column>> positions
RECURSIVE CellSum(_, _)
CellSum(C, cells) ==
    IF cells = {} THEN 0
    ELSE LET cell == CHOOSE c \in cells : TRUE
         IN  C[cell[1]][cell[2]] + CellSum(C, cells \ {cell})

\* C6: for a non-empty list of results get_accuracy is the number of results
\* whose predicted label equals the expected one over the number of results,
\* a value from 0 to 1.
C6_AccuracyIsShareCorrect ==
    (Called("get_accuracy") /\ Len(evaluation.results) > 0) =>
        LET rs == evaluation.results
            correct == {i \in 1..Len(rs) : rs[i].expected = rs[i].predicted}
            acc == evalCall.out
        IN  /\ acc.raised = "none"
            /\ acc.value = <<Cardinality(correct), Len(rs)>>
            /\ 0 <= acc.value[1]
            /\ acc.value[1] <= acc.value[2]

\* C6 witness: three results, exactly one of them correct.
C6_Witness ==
    /\ Called("get_accuracy")
    /\ Len(evaluation.results) = 3
    /\ evalCall.out.raised = "none"
    /\ evalCall.out.value = <<1, 3>>

\* C7: in the multi-class case FN of class c is the sum of row c of the
\* confusion matrix without the diagonal entry.
C7_FalseNegativesAreRowSums ==
    StatsPrinted =>
        LET C == evalCall.out.confusion_matrix
            n == Cardinality(DOMAIN C)
            FN == evalCall.out.class_stats.FN
        IN  n # 2 =>
               \A c \in 0..(n - 1) :
                  FN[c + 1] = CellSum(C, {<<c, j>> : j \in (0..(n - 1)) \ {c}})

\* C8: in the multi-class case TP of class c is C[c][c], FP is the sum of
\* column c without the diagonal entry, and TN is the sum of the entries
\* whose row and column both differ from c.
C8_TruePosFalsePosTrueNeg ==
    StatsPrinted =>
        LET C == evalCall.out.confusion_matrix
            n == Cardinality(DOMAIN C)
            idx == 0..(n - 1)
            by_class == evalCall.out.class_stats
        IN  n # 2 =>
               \A c \in idx :
                  /\ by_class.TP[c + 1] = C[c][c]
                  /\ by_class.FP[c + 1] = CellSum(C, {<<i, c>> : i \in idx \ {c}})
                  /\ by_class.TN[c + 1] =
                        CellSum(C, {cell \in idx \X idx : cell[1] # c /\ cell[2] # c})

\* C8 witness: three classes, one of them with false positives, and with
\* true negatives both on and off the diagonal.
C8_Witness ==
    /\ StatsPrinted
    /\ Cardinality(DOMAIN evalCall.out.confusion_matrix) = 3
    /\ \E c \in 0..2 :
          /\ evalCall.out.class_stats.FP[c + 1] > 0
          /\ evalCall.out.class_stats.TN[c + 1] > 0
          /\ \E i, j \in (0..2) \ {c} : i # j /\ evalCall.out.confusion_matrix[i][j] > 0

\* C9: every per-class vector of class_stats has one entry per class, for
\* any number of distinct labels.
C9_ClassVectorsHaveOneEntryPerClass ==
    StatsPrinted =>
        LET n == Len(RawResults(evaluation.results).text_labels)
            by_class == evalCall.out.class_stats
        IN  /\ Len(by_class.precision) = n
            /\ Len(by_class.recall) = n
            /\ Len(by_class.f_beta) = n
            /\ Len(by_class.support) = n
            /\ Len(by_class.TP) = n
            /\ Len(by_class.TN) = n
            /\ Len(by_class.FP) = n
            /\ Len(by_class.FN) = n

C11_StatsCoverEveryLabel ==
    StatsPrinted =>
        LET tl == RawResults(evaluation.results).text_labels
            n == Len(tl)
            printed == evalCall.out.printed
        IN  /\ evalCall.out.labels = [k \in 1..n |-> k - 1]
            /\ Len(printed.class_table) = n
            /\ Len(printed.class_matrix.rows) = n
            /\ \A k \in 1..n :
                  /\ printed.class_table[k].label = TruncateLabel(tl[k], 18)
                  /\ printed.class_matrix.rows[k].label = TruncateLabel(tl[k], 10)

====
